---- MODULE Spec2Model ----
(***************************************************************************)
(* A model of the Google Sheet Manager tool server (src/server.py).        *)
(*                                                                         *)
(* The server exposes nine tools.  Each tool is a synchronous handler      *)
(* that checks the process-wide configuration, authenticates, issues a     *)
(* short sequence of remote calls to the spreadsheet service and returns   *)
(* a string.  The model runs one invocation at a time (section 5 of the    *)
(* specification: no concurrency) and splits each handler at its remote    *)
(* calls, so that a failure of any single call can be taken.               *)
(*                                                                         *)
(* The spreadsheet service is external: what it answers is an input of     *)
(* the handler, drawn from bounded sets.  Every remote call the handler    *)
(* issues is appended to the log `calls`.                                  *)
(***************************************************************************)
EXTENDS Integers, Sequences, FiniteSets, TLC

(***************************************************************************)
(* Bounds of the model.                                                    *)
(***************************************************************************)
MaxRows == 3
MaxCols == 3
MaxSheets == 2
MaxSheetId == 1
MaxRowCount == 22
MaxValues == 1
MaxDim == 1
MaxIndex == 730

(***************************************************************************)
(* Program constants.                                                      *)
(***************************************************************************)
TAIL_OFFSET == 19
FIRST_DATA_ROW == 2
ALPHABET == 26

(***************************************************************************)
(* Python values.                                                          *)
(***************************************************************************)
\* None, where the code holds an Optional[int] (sheet_id, row_count).
None == -1

\* os.getenv(name): None when the variable is unset, else its string.
EnvValues == {[set |-> FALSE, val |-> ""], [set |-> TRUE, val |-> ""],
              [set |-> TRUE, val |-> "x"]}

\* Python truthiness of an Optional[str]: None and "" are falsy.
Truthy(v) == v.set /\ v.val # ""

Max(a, b) == IF a >= b THEN a ELSE b

StartsWith(s, p) == Len(s) >= Len(p) /\ SubSeq(s, 1, Len(p)) = p

SeqsUpTo(S, n) == UNION {[1..k -> S] : k \in 0..n}

(***************************************************************************)
(* State.                                                                  *)
(***************************************************************************)
VARIABLES
    SERVICE_ACCOUNT_FILE, \* module-level configuration (os.getenv)
    SPREADSHEET_ID,       \* module-level configuration (os.getenv)
    tool,                 \* the tool being executed, "idle" between calls
    pc,                   \* the handler's position
    sheet_name,           \* argument: sheet_name / title / old_title
    range_name,           \* argument of read_sheet_data ("" models None)
    last_20_rows,         \* argument of read_sheet_data
    new_title,            \* argument of rename_sheet
    arg_values,           \* argument `values` of append_data / add_column
    start_index,          \* argument of delete_row / delete_column
    end_index,            \* argument of delete_row / delete_column
    authed,               \* get_service() has been entered in this call
    calls,                \* the remote calls issued by this invocation
    sheets,               \* local: sheet_metadata.get("sheets", [])
    sheet_id,             \* local: sheet_id
    row_count,            \* local: row_count
    start_row,            \* local: start_row
    target_range,         \* local: target_range
    values,               \* local: result.get("values", [])
    header,               \* local: header
    header0,              \* history: the header as first obtained
    data,                 \* local: data
    max_len,              \* local: max_len
    row_i,                \* position of `for row in data`
    col_letter,           \* local: col_letter
    ret,                  \* the string returned
    index,                \* index_to_column: parameter `index`
    index0,               \* history: the index index_to_column was called with
    result                \* index_to_column: local `result`

confVars == <<SERVICE_ACCOUNT_FILE, SPREADSHEET_ID>>
argVars == <<sheet_name, range_name, last_20_rows, new_title, arg_values,
             start_index, end_index>>
readVars == <<row_count, start_row, target_range, values, header, header0,
              data, max_len, row_i>>
colVars == <<index, index0, result>>
vars == <<SERVICE_ACCOUNT_FILE, SPREADSHEET_ID, tool, pc, sheet_name,
          range_name, last_20_rows, new_title, arg_values, start_index,
          end_index, authed, calls, sheets, sheet_id, row_count, start_row,
          target_range, values, header, header0, data, max_len, row_i,
          col_letter, ret, index, index0, result>>


(***************************************************************************)
(* The tools, their arguments and their messages.                          *)
(***************************************************************************)
Tools == {"list_sheets", "read_sheet_data", "create_sheet", "rename_sheet",
          "append_data", "add_column", "delete_sheet", "delete_row",
          "delete_column"}

\* The tools that resolve a sheet title to a sheetId through get_sheet_id.
DeleteTools == {"delete_sheet", "delete_row", "delete_column"}

\* Sheet titles the service may report, and the title a caller asks for.
Titles == {"Sheet1", "Data"}

Requested == {"Sheet1"}

\* What a failing collaborator reports (str(e) of the exception raised).
ErrorDetails == {"HttpError 500", "timed out"}

NoArgs == [sheet_name |-> "", range_name |-> "", last_20_rows |-> FALSE,
           new_title |-> "", arg_values |-> <<>>, start_index |-> 0,
           end_index |-> 0]

\* The arguments each tool is called with (its signature), within the bounds.
Args(t) ==
    CASE t = "list_sheets" -> {NoArgs}
      [] t = "read_sheet_data" ->
            {[NoArgs EXCEPT !.sheet_name = s, !.range_name = r,
                            !.last_20_rows = b] :
                s \in Requested, r \in {"", "A1:C10"}, b \in BOOLEAN}
      [] t = "create_sheet" ->
            {[NoArgs EXCEPT !.sheet_name = s] : s \in Requested}
      [] t = "rename_sheet" ->
            {[NoArgs EXCEPT !.sheet_name = s, !.new_title = n] :
                s \in Requested, n \in Titles}
      [] t = "append_data" ->
            {[NoArgs EXCEPT !.sheet_name = s, !.arg_values = v] :
                s \in Requested, v \in SeqsUpTo({"v"}, MaxValues)}
      [] t = "add_column" ->
            {[NoArgs EXCEPT !.sheet_name = s, !.new_title = "Total",
                            !.arg_values = v] :
                s \in Requested, v \in SeqsUpTo({"v"}, MaxValues)}
      [] t = "delete_sheet" ->
            {[NoArgs EXCEPT !.sheet_name = s] : s \in Requested}
      [] OTHER ->
            {[NoArgs EXCEPT !.sheet_name = s, !.start_index = a,
                            !.end_index = b] :
                s \in Requested, a \in 0..MaxDim, b \in 0..MaxDim}

\* The prefix of the string each tool's `except Exception as e` returns.
ErrorPrefix(t) ==
    CASE t = "list_sheets" -> "Error listing sheets: "
      [] t = "read_sheet_data" -> "Error reading sheet data: "
      [] t = "create_sheet" -> "Error creating sheet: "
      [] t = "rename_sheet" -> "Error renaming sheet: "
      [] t = "append_data" -> "Error appending data: "
      [] t = "add_column" -> "Error adding column: "
      [] t = "delete_sheet" -> "Error deleting sheet: "
      [] t = "delete_row" -> "Error deleting rows: "
      [] OTHER -> "Error deleting columns: "

NOT_CONFIGURED == "Error: SPREADSHEET_ID environment variable is not set."

NO_DATA == "No data found."

NotFound(title) == "Error: Sheet '" \o title \o "' not found."

\* Mutant of NotConfigured: tests `SPREADSHEET_ID is None` only.
NotConfiguredNoneOnly == ~SPREADSHEET_ID.set

\* `if not SPREADSHEET_ID:`, the first statement of every tool.
NotConfigured == ~Truthy(SPREADSHEET_ID)

(***************************************************************************)
(* The remote calls.  A call record is what the handler sent: the API      *)
(* method, the source line of the request, its range or request kind, the  *)
(* sheetId a structural request targets, whether the service answered, and *)
(* how many rows a values read returned.                                   *)
(***************************************************************************)
Call(api, line, arg, sid, ok, rows) ==
    [api |-> api, line |-> line, arg |-> arg, sheetId |-> sid, ok |-> ok,
     rows |-> rows]

\* A sheet of the metadata answer: the properties the tools read.
Sheet(title, sid, rc) == [title |-> title, sheetId |-> sid, rowCount |-> rc]

\* Metadata answers for the tools that read title and sheetId.
IdMetadata ==
    SeqsUpTo({Sheet(t, i, 0) : t \in Titles, i \in 0..MaxSheetId}, MaxSheets)

\* Metadata answers for read_sheet_data, which reads title and rowCount.
RowMetadata ==
    SeqsUpTo({Sheet(t, 0, r) : t \in Titles, r \in 0..MaxRowCount}, MaxSheets)

\* The cell the service holds at row r, column c.
Cell(r, c) == "r" \o ToString(r) \o "c" \o ToString(c)

\* A values answer: rows of any lengths (the service omits trailing empty
\* cells of each row).
Rows(lens) == [r \in 1..Len(lens) |-> [c \in 1..lens[r] |-> Cell(r, c)]]

ValuesAnswers == {Rows(l) : l \in SeqsUpTo(0..MaxCols, MaxRows)}

\* The answer to a read of row 1: header_result.get("values", [[]])[0].
HeaderAnswers == {[c \in 1..n |-> "h" \o ToString(c)] : n \in 0..MaxCols}

(***************************************************************************)
(* Rendering.                                                              *)
(***************************************************************************)
RECURSIVE Join(_, _)
Join(cells, sep) ==
    IF cells = <<>> THEN ""
    ELSE IF Len(cells) = 1 THEN cells[1]
    ELSE cells[1] \o sep \o Join(Tail(cells), sep)

\* One line of df.to_markdown(index=False); column padding is not modelled.
MarkdownRow(cells) == "| " \o Join(cells, " | ") \o " |"

\* pd.DataFrame(rows, columns=cols).to_markdown(index=False)
ToMarkdown(cols, rows) ==
    Join(<<MarkdownRow(cols), MarkdownRow([c \in 1..Len(cols) |-> "---"])>>
            \o [r \in 1..Len(rows) |-> MarkdownRow(rows[r])], "\n")

(***************************************************************************)
(* index_to_column                                                         *)
(***************************************************************************)
LETTERS == "ABCDEFGHIJKLMNOPQRSTUVWXYZ"

\* chr(ord("A") + k)
Chr(k) == SubSeq(LETTERS, k + 1, k + 1)

\* chr(ord("A") + (index % 26))
IndexDigit(i) == Chr(i % ALPHABET)

\* Mutant of IndexRest: plain base 26 above the last letter.
IndexRestPlainBase(i) == IF i < ALPHABET THEN -1 ELSE i \div ALPHABET

\* (index // 26) - 1
IndexRest(i) == (i \div ALPHABET) - 1

RECURSIVE IndexLoop(_, _)
IndexLoop(i, r) ==
    IF i >= 0 THEN IndexLoop(IndexRest(i), IndexDigit(i) \o r) ELSE r

index_to_column(i) == IndexLoop(i, "")


(***************************************************************************)
(* Helpers of the handlers.                                                *)
(***************************************************************************)
\* `x is None`
IsNone(x) == x = None

\* Mutant of FirstMatch: the loop without its `break`, keeping the last
\* sheet with the title.
LastMatch(m, title) ==
    IF \E k \in 1..Len(m) : m[k].title = title
    THEN CHOOSE k \in 1..Len(m) :
            /\ m[k].title = title
            /\ \A j \in (k + 1)..Len(m) : m[j].title # title
    ELSE 0

\* The loop `for sheet in sheets: if title matches: ...; break / return`:
\* the position of the first sheet with the title, 0 when there is none.
FirstMatch(m, title) ==
    IF \E k \in 1..Len(m) : m[k].title = title
    THEN CHOOSE k \in 1..Len(m) :
            /\ m[k].title = title
            /\ \A j \in 1..(k - 1) : m[j].title # title
    ELSE 0

\* sheet_id after the lookup loop of rename_sheet / get_sheet_id.
FindSheetId(m, title) ==
    IF FirstMatch(m, title) = 0 THEN None
    ELSE m[FirstMatch(m, title)].sheetId

\* row_count after the lookup loop of read_sheet_data.
FindRowCount(m, title) ==
    IF FirstMatch(m, title) = 0 THEN None
    ELSE m[FirstMatch(m, title)].rowCount

\* `if row_count and row_count > 1:`
HasDataRows(rc) == ~IsNone(rc) /\ rc # 0 /\ rc > 1

\* Mutant of StartRow: the window is one row too long.
StartRowOffByOne(rc) == Max(FIRST_DATA_ROW, rc - TAIL_OFFSET - 1)

\* start_row = max(2, row_count - 19)
StartRow(rc) == Max(FIRST_DATA_ROW, rc - TAIL_OFFSET)

\* f"'{sheet_name}'!{range_name}"
ExplicitRange(name, rng) == "'" \o name \o "'!" \o rng

\* f"'{sheet_name}'!A{start_row}:ZZ{row_count}"
TailRange(name, first, last) ==
    "'" \o name \o "'!A" \o ToString(first) \o ":ZZ" \o ToString(last)

\* f"'{sheet_name}'!1:1"
HeaderRange(name) == "'" \o name \o "'!1:1"

\* Mutant of NoRows: the empty-result check is missing.
NoRowsUnchecked(v) == FALSE

\* Mutant of HasValues: `if values is not None:`, true of an empty list.
HasValuesNotNone == TRUE

\* `if not values:` (read_sheet_data)
NoRows(v) == v = <<>>

\* `if values:` (add_column)
HasValues == arg_values # <<>>

\* `if last_20_rows and not range_name:`
SeparateHeader == last_20_rows /\ range_name = ""

\* row.extend([""] * (max_len - len(row)))
PadRow(row, n) == row \o [k \in 1..(n - Len(row)) |-> ""]

\* Mutant of ExtendHeader: labels numbered from the 0-based position.
ExtendHeaderZeroBased(h, n, new_cols) ==
    h \o [i \in 1..new_cols |-> "Col_" \o ToString(n + (i - 1))]

\* for i in range(new_cols): header.append(f"Col_{max_len + i + 1}")
ExtendHeader(h, n, new_cols) ==
    h \o [i \in 1..new_cols |-> "Col_" \o ToString(n + (i - 1) + 1)]

\* The body of `except Exception as e: return f"Error ...: {e}"`.
Except(detail) ==
    /\ ret' = ErrorPrefix(tool) \o detail
    /\ pc' = "done"

\* The rows list_sheets tabulates.
SheetRows(m) ==
    [k \in 1..Len(m) |->
        <<ToString(k - 1), m[k].title, ToString(m[k].sheetId),
          "{'rowCount': " \o ToString(m[k].rowCount) \o "}">>]

\* The request kind each deleting tool sends.
DeleteRequest(t) ==
    CASE t = "delete_sheet" -> "deleteSheet"
      [] t = "delete_row" -> "deleteDimension ROWS"
      [] OTHER -> "deleteDimension COLUMNS"

\* The source line of each deleting tool's batchUpdate.
DeleteLine(t) ==
    CASE t = "delete_sheet" -> 361
      [] t = "delete_row" -> 405
      [] OTHER -> 451

\* What each deleting tool returns on success.
DeleteSuccess(t) ==
    CASE t = "delete_sheet" ->
            "Successfully deleted sheet '" \o sheet_name \o "'."
      [] t = "delete_row" ->
            "Successfully deleted rows " \o ToString(start_index) \o " to "
                \o ToString(end_index) \o " in '" \o sheet_name \o "'."
      [] OTHER ->
            "Successfully deleted columns " \o ToString(start_index)
                \o " to " \o ToString(end_index) \o " in '" \o sheet_name
                \o "'."

(***************************************************************************)
(* Initial state: the configuration is read once at import; no tool runs.  *)
(***************************************************************************)
Idle ==
    /\ tool = "idle"
    /\ pc = "idle"
    /\ sheet_name = ""
    /\ range_name = ""
    /\ last_20_rows = FALSE
    /\ new_title = ""
    /\ arg_values = <<>>
    /\ start_index = 0
    /\ end_index = 0
    /\ authed = "no"
    /\ calls = <<>>
    /\ sheets = <<>>
    /\ sheet_id = None
    /\ row_count = None
    /\ start_row = None
    /\ target_range = ""
    /\ values = <<>>
    /\ header = <<>>
    /\ header0 = <<>>
    /\ data = <<>>
    /\ max_len = 0
    /\ row_i = 0
    /\ col_letter = ""
    /\ ret = ""

Init ==
    /\ SERVICE_ACCOUNT_FILE \in EnvValues
    /\ SPREADSHEET_ID \in EnvValues
    /\ Idle
    /\ index = None
    /\ index0 = None
    /\ result = ""

(***************************************************************************)
(* Steps common to all tools.                                              *)
(***************************************************************************)
\* A tool is called: its arguments are bound and its configuration check
\* runs.
Invoke(t, a) ==
    /\ tool = "idle"
    /\ tool' = t
    /\ sheet_name' = a.sheet_name
    /\ range_name' = a.range_name
    /\ last_20_rows' = a.last_20_rows
    /\ new_title' = a.new_title
    /\ arg_values' = a.arg_values
    /\ start_index' = a.start_index
    /\ end_index' = a.end_index
    /\ IF NotConfigured
       THEN ret' = NOT_CONFIGURED /\ pc' = "done"
       ELSE ret' = ret /\ pc' = "auth"
    /\ UNCHANGED <<confVars, authed, calls, sheets, sheet_id, readVars,
                   col_letter, colVars>>

\* service = get_service(), inside the tool's try block.
GetService ==
    /\ pc = "auth"
    /\ \/ /\ ~Truthy(SERVICE_ACCOUNT_FILE)
          /\ authed' = "failed"
          /\ Except("SERVICE_ACCOUNT_FILE environment variable not set")
       \/ /\ Truthy(SERVICE_ACCOUNT_FILE)
          /\ authed' = "failed"
          /\ Except("Service account file not found: "
                        \o SERVICE_ACCOUNT_FILE.val)
       \/ /\ Truthy(SERVICE_ACCOUNT_FILE)
          /\ authed' = "failed"
          /\ \E d \in ErrorDetails : Except(d)
       \/ /\ Truthy(SERVICE_ACCOUNT_FILE)
          /\ authed' = "ok"
          /\ pc' = "body"
          /\ ret' = ret
    /\ UNCHANGED <<confVars, tool, argVars, calls, sheets, sheet_id, readVars,
                   col_letter, colVars>>

\* The tool has returned; the server waits for the next call.
Return ==
    /\ pc = "done"
    /\ tool' = "idle"
    /\ pc' = "idle"
    /\ sheet_name' = ""
    /\ range_name' = ""
    /\ last_20_rows' = FALSE
    /\ new_title' = ""
    /\ arg_values' = <<>>
    /\ start_index' = 0
    /\ end_index' = 0
    /\ authed' = "no"
    /\ calls' = <<>>
    /\ sheets' = <<>>
    /\ sheet_id' = None
    /\ row_count' = None
    /\ start_row' = None
    /\ target_range' = ""
    /\ values' = <<>>
    /\ header' = <<>>
    /\ header0' = <<>>
    /\ data' = <<>>
    /\ max_len' = 0
    /\ row_i' = 0
    /\ col_letter' = ""
    /\ ret' = ""
    /\ UNCHANGED <<confVars, colVars>>

(***************************************************************************)
(* list_sheets                                                             *)
(***************************************************************************)
ListSheets ==
    /\ tool = "list_sheets"
    /\ pc = "body"
    /\ \/ /\ calls' = Append(calls,
                Call("spreadsheets.get", 50, "", None, FALSE, 0))
          /\ \E d \in ErrorDetails : Except(d)
          /\ sheets' = sheets
       \/ \E m \in IdMetadata :
          /\ calls' = Append(calls,
                Call("spreadsheets.get", 50, "", None, TRUE, 0))
          /\ sheets' = m
          /\ ret' = IF m = <<>> THEN "No sheets found in this spreadsheet."
                    ELSE ToMarkdown(
                        <<"Index", "Title", "Sheet ID", "Grid Properties">>,
                        SheetRows(m))
          /\ pc' = "done"
    /\ UNCHANGED <<confVars, tool, argVars, authed, sheet_id, readVars,
                   col_letter, colVars>>


(***************************************************************************)
(* read_sheet_data                                                         *)
(***************************************************************************)
\* "Construct range": target_range = sheet_name, then the explicit range,
\* or the metadata request of the tail-row mode.
ReadConstructRange ==
    /\ tool = "read_sheet_data"
    /\ pc = "body"
    /\ \/ /\ range_name # ""
          /\ target_range' = ExplicitRange(sheet_name, range_name)
          /\ pc' = "fetch"
          /\ UNCHANGED <<calls, sheets, ret>>
       \/ /\ range_name = ""
          /\ last_20_rows
          /\ target_range' = sheet_name
          /\ calls' = Append(calls,
                Call("spreadsheets.get", 103, "", None, FALSE, 0))
          /\ \E d \in ErrorDetails : Except(d)
          /\ sheets' = sheets
       \/ /\ range_name = ""
          /\ last_20_rows
          /\ target_range' = sheet_name
          /\ calls' = Append(calls,
                Call("spreadsheets.get", 103, "", None, TRUE, 0))
          /\ \E m \in RowMetadata : sheets' = m
          /\ pc' = "resolve"
          /\ ret' = ret
       \/ /\ range_name = ""
          /\ ~last_20_rows
          /\ target_range' = sheet_name
          /\ pc' = "fetch"
          /\ UNCHANGED <<calls, sheets, ret>>
    /\ UNCHANGED <<confVars, tool, argVars, authed, sheet_id, row_count,
                   start_row, values, header, header0, data, max_len, row_i,
                   col_letter, colVars>>

\* The row-count lookup and the tail window.  The metadata is not read
\* again after the lookup, so the model keeps only row_count.
ReadResolve ==
    /\ tool = "read_sheet_data"
    /\ pc = "resolve"
    /\ row_count' = FindRowCount(sheets, sheet_name)
    /\ IF HasDataRows(row_count')
       THEN /\ start_row' = StartRow(row_count')
            /\ target_range' = TailRange(sheet_name, start_row', row_count')
       ELSE /\ start_row' = start_row
            /\ target_range' = sheet_name
    /\ sheets' = <<>>
    /\ pc' = "fetch"
    /\ UNCHANGED <<confVars, tool, argVars, authed, calls, sheet_id, values,
                   header, header0, data, max_len, row_i, col_letter, ret,
                   colVars>>

\* The data fetch, and the empty-result return.
ReadValuesGet ==
    /\ tool = "read_sheet_data"
    /\ pc = "fetch"
    /\ \/ /\ calls' = Append(calls,
                Call("values.get", 126, target_range, None, FALSE, 0))
          /\ \E d \in ErrorDetails : Except(d)
          /\ values' = values
       \/ \E v \in ValuesAnswers :
          /\ calls' = Append(calls,
                Call("values.get", 126, target_range, None, TRUE, Len(v)))
          /\ values' = v
          /\ IF NoRows(v)
             THEN ret' = NO_DATA /\ pc' = "done"
             ELSE ret' = ret /\ pc' = "split"
    /\ UNCHANGED <<confVars, tool, argVars, authed, sheets, sheet_id,
                   row_count, start_row, target_range, header, header0, data,
                   max_len, row_i, col_letter, colVars>>

\* Header/body split when the header is fetched separately.
ReadHeaderGet ==
    /\ tool = "read_sheet_data"
    /\ pc = "split"
    /\ SeparateHeader
    /\ \/ /\ calls' = Append(calls,
                Call("values.get", 140, HeaderRange(sheet_name), None,
                     FALSE, 0))
          /\ \E d \in ErrorDetails : Except(d)
          /\ UNCHANGED <<header, header0, data, max_len, row_i>>
       \/ \E h \in HeaderAnswers :
          /\ calls' = Append(calls,
                Call("values.get", 140, HeaderRange(sheet_name), None, TRUE,
                     IF h = <<>> THEN 0 ELSE 1))
          /\ header' = h
          /\ header0' = h
          /\ data' = values
          /\ max_len' = Len(h)
          /\ row_i' = 1
          /\ pc' = "normalize"
          /\ ret' = ret
    /\ UNCHANGED <<confVars, tool, argVars, authed, sheets, sheet_id,
                   row_count, start_row, target_range, values, col_letter,
                   colVars>>

\* Header/body split when row 0 of the fetched rows is the header.
ReadHeaderFromValues ==
    /\ tool = "read_sheet_data"
    /\ pc = "split"
    /\ ~SeparateHeader
    /\ header' = values[1]
    /\ header0' = values[1]
    /\ data' = Tail(values)
    /\ max_len' = Len(values[1])
    /\ row_i' = 1
    /\ pc' = "normalize"
    /\ UNCHANGED <<confVars, tool, argVars, authed, calls, sheets, sheet_id,
                   row_count, start_row, target_range, values, col_letter,
                   ret, colVars>>

\* One iteration of `for row in data:`.
ReadNormalizeRow ==
    /\ tool = "read_sheet_data"
    /\ pc = "normalize"
    /\ row_i <= Len(data)
    /\ LET row == data[row_i] IN
       IF Len(row) < max_len
       THEN /\ data' = [data EXCEPT ![row_i] = PadRow(row, max_len)]
            /\ UNCHANGED <<header, max_len>>
       ELSE IF Len(row) > max_len
       THEN /\ header' = ExtendHeader(header, max_len, Len(row) - max_len)
            /\ max_len' = Len(header')
            /\ data' = data
       ELSE UNCHANGED <<header, max_len, data>>
    /\ row_i' = row_i + 1
    /\ UNCHANGED <<confVars, tool, pc, argVars, authed, calls, sheets,
                   sheet_id, row_count, start_row, target_range, values,
                   header0, col_letter, ret, colVars>>

\* df = pd.DataFrame(data, columns=header); return df.to_markdown(...)
ReadRender ==
    /\ tool = "read_sheet_data"
    /\ pc = "normalize"
    /\ row_i > Len(data)
    /\ ret' = ToMarkdown(header, data)
    /\ pc' = "done"
    /\ UNCHANGED <<confVars, tool, argVars, authed, calls, sheets, sheet_id,
                   readVars, col_letter, colVars>>

(***************************************************************************)
(* create_sheet, append_data                                               *)
(***************************************************************************)
CreateSheet ==
    /\ tool = "create_sheet"
    /\ pc = "body"
    /\ \/ /\ calls' = Append(calls,
                Call("batchUpdate", 183, "addSheet", None, FALSE, 0))
          /\ \E d \in ErrorDetails : Except(d)
       \/ /\ calls' = Append(calls,
                Call("batchUpdate", 183, "addSheet", None, TRUE, 0))
          /\ ret' = "Successfully created sheet '" \o sheet_name \o "'."
          /\ pc' = "done"
    /\ UNCHANGED <<confVars, tool, argVars, authed, sheets, sheet_id,
                   readVars, col_letter, colVars>>

AppendData ==
    /\ tool = "append_data"
    /\ pc = "body"
    /\ \/ /\ calls' = Append(calls,
                Call("values.append", 253, sheet_name, None, FALSE, 0))
          /\ \E d \in ErrorDetails : Except(d)
       \/ /\ calls' = Append(calls,
                Call("values.append", 253, sheet_name, None, TRUE, 0))
          /\ ret' = "Successfully appended " \o ToString(Len(arg_values))
                        \o " rows to '" \o sheet_name \o "'."
          /\ pc' = "done"
    /\ UNCHANGED <<confVars, tool, argVars, authed, sheets, sheet_id,
                   readVars, col_letter, colVars>>


(***************************************************************************)
(* rename_sheet                                                            *)
(***************************************************************************)
\* "Find sheetId": the metadata request, the lookup loop and the
\* not-found return.
RenameLookup ==
    /\ tool = "rename_sheet"
    /\ pc = "body"
    /\ \/ /\ calls' = Append(calls,
                Call("spreadsheets.get", 207, "", None, FALSE, 0))
          /\ \E d \in ErrorDetails : Except(d)
          /\ UNCHANGED <<sheets, sheet_id>>
       \/ \E m \in IdMetadata :
          /\ calls' = Append(calls,
                Call("spreadsheets.get", 207, "", None, TRUE, 0))
          /\ sheets' = m
          /\ sheet_id' = FindSheetId(m, sheet_name)
          /\ IF IsNone(sheet_id')
             THEN ret' = NotFound(sheet_name) /\ pc' = "done"
             ELSE ret' = ret /\ pc' = "update"
    /\ UNCHANGED <<confVars, tool, argVars, authed, readVars, col_letter,
                   colVars>>

RenameUpdate ==
    /\ tool = "rename_sheet"
    /\ pc = "update"
    /\ \/ /\ calls' = Append(calls,
                Call("batchUpdate", 229, "updateSheetProperties", sheet_id,
                     FALSE, 0))
          /\ \E d \in ErrorDetails : Except(d)
       \/ /\ calls' = Append(calls,
                Call("batchUpdate", 229, "updateSheetProperties", sheet_id,
                     TRUE, 0))
          /\ ret' = "Successfully renamed sheet '" \o sheet_name \o "' to '"
                        \o new_title \o "'."
          /\ pc' = "done"
    /\ UNCHANGED <<confVars, tool, argVars, authed, sheets, sheet_id,
                   readVars, col_letter, colVars>>

(***************************************************************************)
(* add_column                                                              *)
(***************************************************************************)
\* "Get current column count by reading the first row".
AddColumnReadRow ==
    /\ tool = "add_column"
    /\ pc = "body"
    /\ \/ /\ calls' = Append(calls,
                Call("values.get", 294, HeaderRange(sheet_name), None,
                     FALSE, 0))
          /\ \E d \in ErrorDetails : Except(d)
          /\ col_letter' = col_letter
       \/ \E existing_headers \in HeaderAnswers :
          /\ calls' = Append(calls,
                Call("values.get", 294, HeaderRange(sheet_name), None, TRUE,
                     IF existing_headers = <<>> THEN 0 ELSE 1))
          /\ col_letter' = index_to_column(Len(existing_headers))
          /\ pc' = "add_header"
          /\ ret' = ret
    /\ UNCHANGED <<confVars, tool, argVars, authed, sheets, sheet_id,
                   readVars, colVars>>

\* "Add header".
AddColumnWriteHeader ==
    /\ tool = "add_column"
    /\ pc = "add_header"
    /\ \/ /\ calls' = Append(calls,
                Call("values.update", 303,
                     ExplicitRange(sheet_name, col_letter \o "1"), None,
                     FALSE, 0))
          /\ \E d \in ErrorDetails : Except(d)
       \/ /\ calls' = Append(calls,
                Call("values.update", 303,
                     ExplicitRange(sheet_name, col_letter \o "1"), None,
                     TRUE, 0))
          /\ IF HasValues
             THEN ret' = ret /\ pc' = "add_values"
             ELSE /\ ret' = "Successfully added column '" \o new_title
                                \o "' at index " \o col_letter \o "."
                  /\ pc' = "done"
    /\ UNCHANGED <<confVars, tool, argVars, authed, sheets, sheet_id,
                   readVars, col_letter, colVars>>

\* "Add values if provided".
AddColumnWriteValues ==
    /\ tool = "add_column"
    /\ pc = "add_values"
    /\ \/ /\ calls' = Append(calls,
                Call("values.update", 314,
                     ExplicitRange(sheet_name, col_letter \o "2"), None,
                     FALSE, 0))
          /\ \E d \in ErrorDetails : Except(d)
       \/ /\ calls' = Append(calls,
                Call("values.update", 314,
                     ExplicitRange(sheet_name, col_letter \o "2"), None,
                     TRUE, 0))
          /\ ret' = "Successfully added column '" \o new_title
                        \o "' at index " \o col_letter \o "."
          /\ pc' = "done"
    /\ UNCHANGED <<confVars, tool, argVars, authed, sheets, sheet_id,
                   readVars, col_letter, colVars>>

(***************************************************************************)
(* delete_sheet, delete_row, delete_column                                 *)
(***************************************************************************)
\* sheet_id = get_sheet_id(service, sheet_name) and the not-found return.
\* get_sheet_id swallows a failure of its request and returns None.
DeleteLookup(t) ==
    /\ tool = t
    /\ pc = "body"
    /\ \/ /\ calls' = Append(calls,
                Call("spreadsheets.get", 330, "", None, FALSE, 0))
          /\ sheets' = sheets
          /\ sheet_id' = None
       \/ \E m \in IdMetadata :
          /\ calls' = Append(calls,
                Call("spreadsheets.get", 330, "", None, TRUE, 0))
          /\ sheets' = m
          /\ sheet_id' = FindSheetId(m, sheet_name)
    /\ IF IsNone(sheet_id')
       THEN ret' = NotFound(sheet_name) /\ pc' = "done"
       ELSE ret' = ret /\ pc' = "update"
    /\ UNCHANGED <<confVars, tool, argVars, authed, readVars, col_letter,
                   colVars>>

DeleteUpdate(t) ==
    /\ tool = t
    /\ pc = "update"
    /\ \/ /\ calls' = Append(calls,
                Call("batchUpdate", DeleteLine(t), DeleteRequest(t),
                     sheet_id, FALSE, 0))
          /\ \E d \in ErrorDetails : Except(d)
       \/ /\ calls' = Append(calls,
                Call("batchUpdate", DeleteLine(t), DeleteRequest(t),
                     sheet_id, TRUE, 0))
          /\ ret' = DeleteSuccess(t)
          /\ pc' = "done"
    /\ UNCHANGED <<confVars, tool, argVars, authed, sheets, sheet_id,
                   readVars, col_letter, colVars>>

(***************************************************************************)
(* The tool server.                                                        *)
(***************************************************************************)
Next ==
    \/ \E t \in Tools : \E a \in Args(t) : Invoke(t, a)
    \/ GetService
    \/ ListSheets
    \/ ReadConstructRange
    \/ ReadResolve
    \/ ReadValuesGet
    \/ ReadHeaderGet
    \/ ReadHeaderFromValues
    \/ ReadNormalizeRow
    \/ ReadRender
    \/ CreateSheet
    \/ RenameLookup
    \/ RenameUpdate
    \/ AppendData
    \/ AddColumnReadRow
    \/ AddColumnWriteHeader
    \/ AddColumnWriteValues
    \/ \E t \in DeleteTools : DeleteLookup(t)
    \/ \E t \in DeleteTools : DeleteUpdate(t)
    \/ Return

Spec == Init /\ [][Next]_vars

(***************************************************************************)
(* index_to_column as a process of its own: called with any index within   *)
(* the bound, it runs its while loop one iteration per step.               *)
(***************************************************************************)
ColInit ==
    /\ SERVICE_ACCOUNT_FILE = [set |-> TRUE, val |-> "x"]
    /\ SPREADSHEET_ID = [set |-> TRUE, val |-> "x"]
    /\ authed = "no"
    /\ calls = <<>>
    /\ sheets = <<>>
    /\ sheet_id = None
    /\ row_count = None
    /\ start_row = None
    /\ target_range = ""
    /\ values = <<>>
    /\ header = <<>>
    /\ header0 = <<>>
    /\ data = <<>>
    /\ max_len = 0
    /\ row_i = 0
    /\ col_letter = ""
    /\ ret = ""
    /\ sheet_name = ""
    /\ range_name = ""
    /\ last_20_rows = FALSE
    /\ new_title = ""
    /\ arg_values = <<>>
    /\ start_index = 0
    /\ end_index = 0
    /\ tool = "index_to_column"
    /\ pc = "loop"
    /\ index0 \in 0..MaxIndex
    /\ index = index0
    /\ result = ""

\* One iteration of `while index >= 0:`.
IndexToColumnLoop ==
    /\ tool = "index_to_column"
    /\ pc = "loop"
    /\ index >= 0
    /\ result' = IndexDigit(index) \o result
    /\ index' = IndexRest(index)
    /\ UNCHANGED <<confVars, tool, pc, argVars, authed, calls, sheets,
                   sheet_id, readVars, col_letter, ret, index0>>

\* `return result`, when the loop condition fails.
IndexToColumnReturn ==
    /\ tool = "index_to_column"
    /\ pc = "loop"
    /\ ~(index >= 0)
    /\ pc' = "return"
    /\ UNCHANGED <<confVars, tool, argVars, authed, calls, sheets, sheet_id,
                   readVars, col_letter, ret, colVars>>

ColNext == IndexToColumnLoop \/ IndexToColumnReturn

ColSpec == ColInit /\ [][ColNext]_vars /\ WF_vars(ColNext)


(***************************************************************************)
(* Properties.                                                             *)
(***************************************************************************)
\* A remote call of this invocation failed, or its authentication did.
Failed == authed = "failed" \/ \E k \in 1..Len(calls) : ~calls[k].ok

\* The normalization pass of read_sheet_data has finished.
Normalized ==
    tool = "read_sheet_data" /\ pc = "normalize" /\ row_i > Len(data)

\* The body rows as fetched, before normalization.
FetchedBody == IF last_20_rows /\ range_name = "" THEN values ELSE Tail(values)

RECURSIVE MaxRowLen(_)
MaxRowLen(rows) ==
    IF rows = <<>> THEN 0 ELSE Max(Len(rows[1]), MaxRowLen(Tail(rows)))

\* C1: once the normalization pass of read_sheet_data has finished, every
\* body row has exactly as many cells as the final header.
C1_RowsMatchHeader ==
    Normalized => \A r \in 1..Len(data) : Len(data[r]) = Len(header)

\* C2: when a remote call (or the authentication) of a tool fails, the tool
\* returns a string that starts with its own "Error <doing-X>: " prefix and
\* issues no further remote call.
C2_FailureReported ==
    Failed =>
        /\ pc = "done"
        /\ StartsWith(ret, ErrorPrefix(tool))
        /\ \A k \in 1..Len(calls) : ~calls[k].ok => k = Len(calls)

\* C3: when the spreadsheet identifier is unset or empty, every tool returns
\* the configuration error and performs no authentication and no remote
\* call.
C3_NotConfiguredNoRemote ==
    (tool \in Tools /\ (~SPREADSHEET_ID.set \/ SPREADSHEET_ID.val = "")) =>
        /\ pc = "done"
        /\ ret = "Error: SPREADSHEET_ID environment variable is not set."
        /\ authed = "no"
        /\ calls = <<>>

C3_Witness ==
    /\ tool = "delete_column"
    /\ SPREADSHEET_ID = [set |-> TRUE, val |-> ""]
    /\ start_index = 1
    /\ pc = "done"
    /\ ret = "Error: SPREADSHEET_ID environment variable is not set."


\* C4: in tail-row mode without an explicit range, a sheet of R > 1 rows is
\* read as rows max(2, R - 19)..R (never row 1, at most 20 rows); with
\* R <= 1, or the title absent from the metadata, the whole sheet is read.
\* The data fetch requests exactly the range so resolved.
C4_TailWindow ==
    /\ [][(tool = "read_sheet_data" /\ pc = "resolve" /\ pc' = "fetch") =>
            IF \E k \in 1..Len(sheets) : sheets[k].title = sheet_name
            THEN LET k == CHOOSE k \in 1..Len(sheets) :
                            /\ sheets[k].title = sheet_name
                            /\ \A j \in 1..(k - 1) :
                                    sheets[j].title # sheet_name
                     R == sheets[k].rowCount
                     first == IF R - 19 >= 2 THEN R - 19 ELSE 2
                 IN  IF R > 1
                     THEN /\ start_row' = first
                          /\ start_row' >= 2
                          /\ R - start_row' + 1 <= 20
                          /\ target_range' =
                                "'" \o sheet_name \o "'!A" \o ToString(first)
                                    \o ":ZZ" \o ToString(R)
                     ELSE target_range' = sheet_name
            ELSE target_range' = sheet_name]_vars
    /\ [](\A k \in 1..Len(calls) :
            calls[k].line = 126 => calls[k].arg = target_range)

C4_Witness ==
    /\ tool = "read_sheet_data"
    /\ last_20_rows
    /\ row_count = 22
    /\ start_row = 3
    /\ Len(calls) = 2
    /\ calls[2].arg = "'Sheet1'!A3:ZZ22"

(***************************************************************************)
(* The standard spreadsheet column sequence A, ..., Z, AA, AB, ..., given  *)
(* by its successor: the last letter advances, Z wraps to A and carries.   *)
(***************************************************************************)
LetterPos(c) == CHOOSE k \in 1..Len(LETTERS) : SubSeq(LETTERS, k, k) = c

RECURSIVE ColumnSucc(_)
ColumnSucc(s) ==
    IF s = "" THEN "A"
    ELSE LET n == Len(s)
             last == SubSeq(s, n, n)
             front == SubSeq(s, 1, n - 1)
         IN  IF last = "Z" THEN ColumnSucc(front) \o "A"
             ELSE front \o SubSeq(LETTERS, LetterPos(last) + 1,
                                  LetterPos(last) + 1)

\* C5: index_to_column terminates for every index >= 0 and enumerates the
\* standard column sequence: 0 -> A, 25 -> Z, 26 -> AA, index i+1 -> the
\* label that follows the label of i, each a non-empty string over A..Z that
\* no other index yields.
C5_ColumnBijection ==
    /\ <>(pc = "return")
    /\ [](pc = "return" =>
            /\ result # ""
            /\ \A k \in 1..Len(result) :
                    \E j \in 1..Len(LETTERS) :
                        SubSeq(result, k, k) = SubSeq(LETTERS, j, j)
            /\ index0 = 0 => result = "A"
            /\ index0 = 25 => result = "Z"
            /\ index0 = 26 => result = "AA"
            /\ result = index_to_column(index0)
            /\ index0 > 0 => result = ColumnSucc(index_to_column(index0 - 1))
            /\ \A m \in 0..MaxIndex :
                    m # index0 => index_to_column(m) # result)

C5_Witness ==
    /\ tool = "index_to_column"
    /\ pc = "return"
    /\ index0 = 702
    /\ result = "AAA"


\* The data fetch of this invocation requested the computed tail-row window.
TailWindowFetched ==
    /\ last_20_rows
    /\ range_name = ""
    /\ start_row # None
    /\ target_range = TailRange(sheet_name, start_row, row_count)

\* C6: after a whole-sheet or explicit-range fetch, row 0 of the fetched
\* rows is the header and the remaining rows are the body; only after a
\* fetch of the computed tail-row window is the header fetched separately
\* and every fetched row used as body.
C6_HeaderSplit ==
    [][(tool = "read_sheet_data" /\ pc = "split" /\ pc' = "normalize") =>
        IF TailWindowFetched
        THEN /\ Len(calls') = Len(calls) + 1
             /\ calls'[Len(calls')].arg = "'" \o sheet_name \o "'!1:1"
             /\ data' = values
        ELSE /\ calls' = calls
             /\ header' = values[1]
             /\ data' = Tail(values)]_vars

\* C7: every invocation of any tool issues at most two remote calls.
C7_AtMostTwoCalls == Len(calls) <= 2

\* C7, amended: every invocation issues at most three remote calls, and
\* three only in read_sheet_data with the tail flag and no explicit range
\* (metadata, data, header) and in add_column with values supplied (row 1,
\* header cell, values); every other path issues at most two.
C7_AtMostThreeCalls ==
    /\ Len(calls) <= 3
    /\ Len(calls) = 3 =>
        \/ tool = "read_sheet_data" /\ last_20_rows /\ range_name = ""
        \/ tool = "add_column" /\ arg_values # <<>>

C7_Witness ==
    /\ tool = "read_sheet_data"
    /\ pc = "done"
    /\ Len(calls) = 3
    /\ calls[1].api = "spreadsheets.get"
    /\ calls[2].api = "values.get"
    /\ calls[3].api = "values.get"
    /\ calls[3].ok

\* C8: in every mode of read_sheet_data, when the data fetch succeeds and
\* returns no rows the tool returns exactly "No data found.", which is not
\* an "Error" string, and that fetch is its last remote call.
C8_EmptyIsNoData ==
    \A k \in 1..Len(calls) :
        (tool = "read_sheet_data" /\ calls[k].line = 126 /\ calls[k].ok
            /\ calls[k].rows = 0) =>
                /\ k = Len(calls)
                /\ pc = "done"
                /\ ret = "No data found."
                /\ ~StartsWith(ret, "Error")

C8_Witness ==
    /\ tool = "read_sheet_data"
    /\ TailWindowFetched
    /\ Len(calls) = 2
    /\ calls[2].ok
    /\ calls[2].rows = 0
    /\ ret = "No data found."

\* C9: during the normalization pass the header only grows: each step keeps
\* the previous header as a prefix and appends only labels "Col_n" at
\* 1-based position n; the original header stays a prefix throughout, and
\* the final header is as long as the longer of the original header and
\* the longest fetched body row.
C9_HeaderGrows ==
    /\ [][(tool = "read_sheet_data" /\ pc = "normalize"
                /\ pc' = "normalize") =>
            /\ Len(header') >= Len(header)
            /\ SubSeq(header', 1, Len(header)) = header
            /\ \A n \in (Len(header) + 1)..Len(header') :
                    header'[n] = "Col_" \o ToString(n)]_vars
    /\ []((tool = "read_sheet_data" /\ pc = "normalize") =>
            /\ Len(header) >= Len(header0)
            /\ SubSeq(header, 1, Len(header0)) = header0
            /\ \A n \in (Len(header0) + 1)..Len(header) :
                    header[n] = "Col_" \o ToString(n)
            /\ Normalized =>
                    Len(header) = Max(Len(header0), MaxRowLen(FetchedBody)))

C9_Witness ==
    /\ Normalized
    /\ header0 = <<"r1c1", "r1c2">>
    /\ header = <<"r1c1", "r1c2", "Col_3">>
    /\ data = << <<"r2c1", "r2c2", "r2c3">> >>

\* C10: rename_sheet, delete_sheet, delete_row and delete_column issue their
\* batch-update only after a metadata lookup that found a sheet with the
\* requested title, and target the sheetId of the first such sheet; when
\* the lookup finds none they return "Error: Sheet '<name>' not found." and
\* issue no batch-update.
C10_UpdateOnlyFoundSheet ==
    tool \in {"rename_sheet"} \cup DeleteTools =>
        /\ \A k \in 1..Len(calls) :
            calls[k].api = "batchUpdate" =>
                /\ k = 2
                /\ calls[1].api = "spreadsheets.get"
                /\ calls[1].ok
                /\ \E j \in 1..Len(sheets) :
                    /\ sheets[j].title = sheet_name
                    /\ \A i \in 1..(j - 1) : sheets[i].title # sheet_name
                    /\ calls[k].sheetId = sheets[j].sheetId
        /\ (/\ calls # <<>>
            /\ calls[1].ok
            /\ \A j \in 1..Len(sheets) : sheets[j].title # sheet_name) =>
                /\ pc = "done"
                /\ ret = "Error: Sheet '" \o sheet_name \o "' not found."
                /\ Len(calls) = 1

C10_Witness ==
    /\ tool = "delete_row"
    /\ pc = "done"
    /\ Len(sheets) = 2
    /\ sheets[1].title = sheet_name
    /\ sheets[2].title = sheet_name
    /\ sheets[1].sheetId = 0
    /\ sheets[2].sheetId = 1
    /\ Len(calls) = 2
    /\ calls[2].ok
    /\ calls[2].sheetId = 0

====
